---- MODULE Spec2Model ----
(***************************************************************************)
(* Verification-request pipeline of the verify repository:                 *)
(*   - the phone endpoint POST /api/verify/phone        (src/route.ts)     *)
(*   - the external validation client AbstractAPIClient (src/abstract-api.ts)*)
(*   - the record store                                  (src/database.ts) *)
(* Time is in milliseconds.  Quality scores are in tenths (0.9 is 9).      *)
(* A string is a sequence of one-character strings.                        *)
(***************************************************************************)
EXTENDS Integers, Sequences, FiniteSets, TLC

(***************************************************************************)
(* Bounds of the model.                                                    *)
(***************************************************************************)
NumRequests == 2      \* endpoint requests per behaviour
MaxTicks == 1         \* idle clock advances per behaviour
NumCallers == 2       \* concurrent callers of the store functions
MaxOps == 2           \* store operations per caller

(***************************************************************************)
(* Program constants.                                                      *)
(***************************************************************************)
\* a loop that allows one attempt too many
maxRetriesOffByOne == 3 + 1
maxRetries == 3             \* abstract-api.ts:144, 243, 303
timeout == 10000            \* abstract-api.ts:145, 244, 304
BackoffBase == 1000         \* abstract-api.ts:186
BackoffCap == 5000          \* abstract-api.ts:186
RateLimitWindow == 300000   \* route.ts:30   5 * 60 * 1000
MinPhoneChars == 10         \* route.ts:18   {10,}
ClientTimeout == 15000      \* page.tsx:186

Min(a, b) == IF a < b THEN a ELSE b
Max(a, b) == IF a > b THEN a ELSE b

RECURSIVE Pow2(_)
Pow2(n) == IF n = 0 THEN 1 ELSE 2 * Pow2(n - 1)

(***************************************************************************)
(* JavaScript values that can arrive as the `phone` member of the body.    *)
(***************************************************************************)
JsUndefined == [t |-> "undefined", s |-> <<>>, n |-> 0]
JsNull == [t |-> "null", s |-> <<>>, n |-> 0]
JsNumber(k) == [t |-> "number", s |-> <<>>, n |-> k]
JsString(chars) == [t |-> "string", s |-> chars, n |-> 0]

\* !v
Falsy(v) ==
    \/ v.t \in {"undefined", "null"}
    \/ v.t = "number" /\ v.n = 0
    \/ v.t = "string" /\ v.s = <<>>

Digits == {"0", "1", "2", "3", "4", "5", "6", "7", "8", "9"}
\* the character class [\d\s\-\(\)]
PhoneClass == Digits \cup {" ", "-", "(", ")"}

\* the pattern with the quantifier one too low
phoneRegexTestShort(chars) ==
    LET rest == IF chars # <<>> /\ Head(chars) = "+" THEN Tail(chars) ELSE chars
    IN  /\ Len(rest) >= MinPhoneChars - 1
        /\ \A i \in 1..Len(rest) : rest[i] \in PhoneClass

\* /^[\+]?[\d\s\-\(\)]{10,}$/.test(chars)
phoneRegexTest(chars) ==
    LET rest == IF chars # <<>> /\ Head(chars) = "+" THEN Tail(chars) ELSE chars
    IN  /\ Len(rest) >= MinPhoneChars
        /\ \A i \in 1..Len(rest) : rest[i] \in PhoneClass

PhoneA == <<"5", "5", "5", "1", "2", "3", "4", "5", "6", "7">>
PhoneB == <<"+", "1", " ", "(", "5", "5", "5", ")", " ", "1", "2", "-", "3", "4">>

\* the phone members the model submits
PhoneInputs ==
    { JsUndefined, JsNull, JsNumber(0), JsNumber(55512345), JsString(<<>>),
      JsString(<<"a", "b", "c">>),
      JsString(<<"5", "5", "5", "1", "2", "3", "4", "5", "6">>),
      JsString(<<"+", "5", "5", "5", "1", "2", "3", "4", "5", "6">>),
      JsString(<<"5", "5", "5", "+", "1", "2", "3", "4", "5", "6", "7">>),
      JsString(<<"5", "5", "5", "1", "2", "3", "4", "5", "6", "7", "x">>),
      JsString(PhoneA), JsString(PhoneB) }

\* request bodies: not JSON, the JSON value null, or an object with a phone member
Bodies ==
    {[json |-> "invalid", phone |-> JsUndefined], [json |-> "null", phone |-> JsUndefined]}
    \cup {[json |-> "object", phone |-> p] : p \in PhoneInputs}

(***************************************************************************)
(* What the upstream service can do with one fetch: answer with an HTTP    *)
(* status and a body, fail at the network level, or not answer before the  *)
(* 10 s timer aborts the fetch.                                            *)
(*   body.shape: "phone"   a well-formed phone result {valid, type, ...}   *)
(*               "email"   a well-formed email result {email_address,      *)
(*                         email_deliverability, ...}; valid = deliverable *)
(*               "empty"   the JSON object {} (required fields missing)    *)
(*               "zero"    the JSON value 0                                *)
(*               "null"    the JSON value null                             *)
(*               "notjson" a body that is not JSON                         *)
(*   text: the error body of a non-2xx answer contains the word "fetch".   *)
(***************************************************************************)
NoBody == [shape |-> "empty", valid |-> FALSE, type |-> ""]
Body(shape, valid, type) == [shape |-> shape, valid |-> valid, type |-> type]
Http(status, body, text) == [kind |-> "http", status |-> status, body |-> body, text |-> text]
NetworkFailure == [kind |-> "network", status |-> 0, body |-> NoBody, text |-> FALSE]
TimerAbort == [kind |-> "timeout", status |-> 0, body |-> NoBody, text |-> FALSE]

ErrorStatuses == {404, 429, 500, 503}
MalformedBodies ==
    {Body("empty", FALSE, ""), Body("zero", FALSE, ""), Body("null", FALSE, ""),
     Body("notjson", FALSE, "")}
\* AbstractPhoneValidationResult.type, abstract-api.ts:126
PhoneTypes ==
    {"Landline", "Mobile", "Satellite", "Premium", "Paging", "Special", "Toll_Free", "Unknown"}
PhoneBodies == {Body("phone", v, ty) : v \in BOOLEAN, ty \in PhoneTypes}
EmailBodies == {Body("email", v, "") : v \in BOOLEAN}

\* response.ok
ResponseOk(o) == o.kind = "http" /\ o.status >= 200 /\ o.status <= 299

\* Math.min(1000 * Math.pow(2, attempt - 1), 5000)
Backoff(attempt) == Min(BackoffBase * Pow2(attempt - 1), BackoffCap)

(***************************************************************************)
(* Errors.  A caught error has a name, the cause it stands for, the HTTP   *)
(* status when it has one, and whether its message contains "fetch".  A    *)
(* raised error has the message the caller sees and the status it quotes.  *)
(***************************************************************************)
Caught(name, cause, status, hasFetch) ==
    [name |-> name, cause |-> cause, status |-> status, hasFetch |-> hasFetch]
Raised(msg, status) == [msg |-> msg, status |-> status]
NoError == Raised("", 0)

Return(data) == [act |-> "return", delay |-> <<>>, err |-> NoError, data |-> data]
Throw(err) == [act |-> "throw", delay |-> <<>>, err |-> err, data |-> NoBody]
RetryAfter(d) == [act |-> "retry", delay |-> <<d>>, err |-> NoError, data |-> NoBody]
RetryNow == [act |-> "retry", delay |-> <<>>, err |-> NoError, data |-> NoBody]

\* what the try block of one attempt does: "caught" hands e to the catch block
TryCaught(e) == [act |-> "caught", delay |-> <<>>, err |-> NoError, data |-> NoBody, e |-> e]
TryDone(r) == [act |-> r.act, delay |-> r.delay, err |-> r.err, data |-> r.data,
               e |-> Caught("", "", 0, FALSE)]

\* the try block without the exemption of 429 from the client errors
validateEmailTryNo429(attempt, keyOk, o) ==
    IF ~keyOk THEN TryCaught(Caught("Error", "nokey", 0, FALSE))
    ELSE IF o.kind = "network" THEN TryCaught(Caught("TypeError", "network", 0, TRUE))
    ELSE IF o.kind = "timeout" THEN TryCaught(Caught("AbortError", "timeout", 0, FALSE))
    ELSE IF ~ResponseOk(o) THEN
        IF o.status >= 400 /\ o.status < 500
        THEN TryCaught(Caught("Error", "http", o.status, o.text))
        ELSE IF attempt = maxRetries
        THEN TryCaught(Caught("Error", "http", o.status, o.text))
        ELSE TryDone(RetryAfter(Backoff(attempt)))
    ELSE IF o.body.shape = "notjson" THEN TryCaught(Caught("SyntaxError", "syntax", 0, FALSE))
    ELSE IF o.body.shape = "null" THEN TryCaught(Caught("TypeError", "nullbody", 0, FALSE))
    ELSE IF o.body.shape # "email" THEN
        IF attempt = maxRetries
        THEN TryCaught(Caught("Error", "structure", 0, FALSE))
        ELSE TryDone(RetryNow)
    ELSE TryDone(Return(o.body))

\* validateEmail, the try block of one loop iteration
validateEmailTry(attempt, keyOk, o) ==
    IF ~keyOk THEN TryCaught(Caught("Error", "nokey", 0, FALSE))
    ELSE IF o.kind = "network" THEN TryCaught(Caught("TypeError", "network", 0, TRUE))
    ELSE IF o.kind = "timeout" THEN TryCaught(Caught("AbortError", "timeout", 0, FALSE))
    ELSE IF ~ResponseOk(o) THEN
        IF o.status >= 400 /\ o.status < 500 /\ o.status # 429
        THEN TryCaught(Caught("Error", "http", o.status, o.text))
        ELSE IF attempt = maxRetries
        THEN TryCaught(Caught("Error", "http", o.status, o.text))
        ELSE TryDone(RetryAfter(Backoff(attempt)))
    ELSE IF o.body.shape = "notjson" THEN TryCaught(Caught("SyntaxError", "syntax", 0, FALSE))
    ELSE IF o.body.shape = "null" THEN TryCaught(Caught("TypeError", "nullbody", 0, FALSE))
    ELSE IF o.body.shape # "email" THEN
        IF attempt = maxRetries
        THEN TryCaught(Caught("Error", "structure", 0, FALSE))
        ELSE TryDone(RetryNow)
    ELSE TryDone(Return(o.body))

\* validateEmail, the catch block
validateEmailCatch(attempt, e) ==
    IF e.name \in {"AbortError", "TypeError"} \/ e.hasFetch
    THEN IF attempt = maxRetries
         THEN Throw(Raised("Failed to connect to email validation service", 0))
         ELSE RetryAfter(Backoff(attempt))
    ELSE IF attempt = 1 \/ attempt = maxRetries
    THEN Throw(Raised("Failed to validate email with Abstract API: " \o e.cause, e.status))
    ELSE RetryAfter(Backoff(attempt))

\* validateEmail, one loop iteration
validateEmailAttempt(attempt, keyOk, o) ==
    LET t == validateEmailTry(attempt, keyOk, o)
    IN  IF t.act = "caught" THEN validateEmailCatch(attempt, t.e)
        ELSE [act |-> t.act, delay |-> t.delay, err |-> t.err, data |-> t.data]

\* the try block backing off after an error status on every attempt, the last included
plainTryAlwaysBackoff(attempt, o) ==
    IF o.kind = "network" THEN TryCaught(Caught("TypeError", "network", 0, TRUE))
    ELSE IF o.kind = "timeout" THEN TryCaught(Caught("AbortError", "timeout", 0, FALSE))
    ELSE IF ~ResponseOk(o) THEN TryDone(RetryAfter(Backoff(attempt)))
    ELSE IF o.body.shape = "notjson" THEN TryCaught(Caught("SyntaxError", "syntax", 0, FALSE))
    ELSE TryDone(Return(o.body))

\* validatePhone and getEmailReputation, the try block of one loop iteration
plainTry(attempt, o) ==
    IF o.kind = "network" THEN TryCaught(Caught("TypeError", "network", 0, TRUE))
    ELSE IF o.kind = "timeout" THEN TryCaught(Caught("AbortError", "timeout", 0, FALSE))
    ELSE IF ~ResponseOk(o) THEN
        IF attempt = maxRetries
        THEN TryCaught(Caught("Error", "http", o.status, FALSE))
        ELSE TryDone(RetryAfter(Backoff(attempt)))
    ELSE IF o.body.shape = "notjson" THEN TryCaught(Caught("SyntaxError", "syntax", 0, FALSE))
    ELSE TryDone(Return(o.body))

\* validatePhone and getEmailReputation, the catch block
plainCatch(attempt, e, connectMsg, failedMsg) ==
    IF e.name \in {"AbortError", "TypeError"}
    THEN IF attempt = maxRetries
         THEN Throw(Raised(connectMsg, 0))
         ELSE RetryAfter(Backoff(attempt))
    ELSE IF attempt = maxRetries
    THEN Throw(Raised(failedMsg, 0))
    ELSE RetryAfter(Backoff(attempt))

\* validatePhone, one loop iteration
validatePhoneAttempt(attempt, o) ==
    LET t == plainTry(attempt, o)
    IN  IF t.act = "caught" THEN plainCatch(attempt, t.e, "Failed to connect to phone validation service",
                                             "Failed to validate phone with Abstract API")
        ELSE [act |-> t.act, delay |-> t.delay, err |-> t.err, data |-> t.data]

\* getEmailReputation, one loop iteration
getEmailReputationAttempt(attempt, o) ==
    LET t == plainTry(attempt, o)
    IN  IF t.act = "caught" THEN plainCatch(attempt, t.e, "Failed to connect to email reputation service",
                                             "Failed to get email reputation from Abstract API")
        ELSE [act |-> t.act, delay |-> t.delay, err |-> t.err, data |-> t.data]

ClientFunctions == {"validateEmail", "getEmailReputation", "validatePhone"}

\* for (let attempt = 1; attempt <= maxRetries; attempt++)
LoopCondition(attempt) == attempt <= maxRetries

\* the throw after the loop
AfterLoop(fn) ==
    CASE fn = "validateEmail" -> Raised("Failed to validate email with Abstract API", 0)
      [] fn = "getEmailReputation" -> Raised("Failed to get email reputation from Abstract API", 0)
      [] fn = "validatePhone" -> Raised("Failed to validate phone with Abstract API", 0)

\* one loop iteration of the client function fn
Attempt(fn, attempt, keyOk, o) ==
    CASE fn = "validateEmail" -> validateEmailAttempt(attempt, keyOk, o)
      [] fn = "getEmailReputation" -> getEmailReputationAttempt(attempt, o)
      [] fn = "validatePhone" -> validatePhoneAttempt(attempt, o)

\* the upstream outcomes the model draws for one fetch of fn
FailureOutcomes(fn) ==
    {Http(st, NoBody, tx) : st \in ErrorStatuses,
                            tx \in IF fn = "validateEmail" THEN BOOLEAN ELSE {FALSE}}
    \cup {NetworkFailure, TimerAbort}
Outcomes(fn) ==
    FailureOutcomes(fn)
    \cup {Http(200, b, FALSE) : b \in MalformedBodies \cup EmailBodies
                                       \cup {Body("phone", TRUE, "Mobile")}}
\* the upstream outcomes the model draws for a fetch of the phone endpoint
EndpointOutcomes ==
    {Http(404, NoBody, FALSE), Http(503, NoBody, FALSE), NetworkFailure}
    \cup {Http(200, b, FALSE) : b \in {Body("phone", TRUE, "Mobile"), Body("phone", FALSE, "Mobile"),
                                       Body("zero", FALSE, ""), Body("null", FALSE, "")}}

(***************************************************************************)
(* The record store: the rows of verification_requests, in id order.       *)
(* AUTOINCREMENT with no DELETE makes the id of a row its position.        *)
(***************************************************************************)
Null == [null |-> TRUE]                 \* SQL NULL / JS null
Some(v) == [null |-> FALSE, v |-> v]

\* CURRENT_TIMESTAMP: the UTC wall clock as 'YYYY-MM-DD HH:MM:SS', whole seconds
CurrentTimestamp(t) == t \div 1000
\* new Date(created_at).getTime(): a date-time string without a zone is read as
\* local time; tzOffset is local time minus UTC, in ms
DateParse(seconds, tzOffset) == seconds * 1000 - tzOffset

\* JSON.stringify(payload) and JSON.parse(text)
JSONStringify(payload) == [json |-> payload]
JSONParse(text) == text.json

\* request.validation_data ? ... : null  -- the JS truthiness of a payload
PayloadTruthy(b) == b.shape \notin {"zero", "null"}

VerificationCodes == {"K3X9QZ"}

\* createVerificationRequest: the row INSERTed for `request`
InsertedRow(st, request, code, t) ==
    [id |-> Len(st) + 1,
     type |-> request.type,
     value |-> request.value,
     status |-> IF request.status = "" THEN "pending" ELSE request.status,
     verification_code |-> code,
     created_at |-> CurrentTimestamp(t),
     updated_at |-> CurrentTimestamp(t),
     ip_address |-> request.ip_address,
     user_agent |-> request.user_agent,
     validation_data |-> IF PayloadTruthy(request.validation_data)
                         THEN Some(JSONStringify(request.validation_data)) ELSE Null,
     api_response_time |-> IF request.api_response_time # 0
                           THEN Some(request.api_response_time) ELSE Null,
     quality_score |-> IF request.quality_score # 0 THEN Some(request.quality_score) ELSE Null,
     risk_level |-> IF request.risk_level # "" THEN Some(request.risk_level) ELSE Null]

createVerificationRequest(st, request, code, t) == Append(st, InsertedRow(st, request, code, t))

\* the `updates` argument of updateVerificationRequest: a member is Null when
\* it is undefined in the argument, Some(v) when it is given
NoUpdates ==
    [status |-> Null, validation_data |-> Null, api_response_time |-> Null,
     quality_score |-> Null, risk_level |-> Null]

\* the SET list built from `updates`, applied to one row
SetFields(row, updates, t) ==
    [row EXCEPT
        !.status = IF updates.status.null THEN @ ELSE updates.status.v,
        !.validation_data = IF updates.validation_data.null THEN @
                            ELSE Some(JSONStringify(updates.validation_data.v)),
        !.api_response_time = IF updates.api_response_time.null THEN @
                              ELSE updates.api_response_time,
        !.quality_score = IF updates.quality_score.null THEN @ ELSE updates.quality_score,
        !.risk_level = IF updates.risk_level.null THEN @ ELSE updates.risk_level,
        !.updated_at = CurrentTimestamp(t)]

\* an update that sets the fields in every row, its WHERE clause lost
updateVerificationRequestEveryRow(st, id, updates, t) ==
    IF updates = NoUpdates THEN st
    ELSE [i \in DOMAIN st |-> SetFields(st[i], updates, t)]

\* updateVerificationRequest(id, updates): UPDATE ... SET ... WHERE id = ?, and
\* no statement at all when `updates` names no field
updateVerificationRequest(st, id, updates, t) ==
    IF updates = NoUpdates THEN st
    ELSE [i \in DOMAIN st |->
            IF st[i].id = id THEN SetFields(st[i], updates, t) ELSE st[i]]

\* updateVerificationStatus(id, status): UPDATE ... SET status = ?, updated_at = ...
updateVerificationStatus(st, id, status, t) ==
    [i \in DOMAIN st |->
        IF st[i].id = id
        THEN [st[i] EXCEPT !.status = status, !.updated_at = CurrentTimestamp(t)]
        ELSE st[i]]

\* getVerificationRequestsByValue: SELECT ... WHERE type = ? AND value = ?
getVerificationRequestsByValue(st, type, value) ==
    {i \in DOMAIN st : st[i].type = type /\ st[i].value = value}

\* recentAttempts.find(attempt => new Date(attempt.created_at).getTime() > Date.now() - 5 min)
recentAttempt(st, type, value, t, tzOffset) ==
    \E i \in getVerificationRequestsByValue(st, type, value) :
        DateParse(st[i].created_at, tzOffset) > t - RateLimitWindow

\* a result taken for valid whenever it has the shape of a phone result
PhoneValidAnyFlag(data) == data.shape = "phone"
\* the scoring without "Unknown" in the 0.5 / medium branch
PhoneScoreTollFreeOnly(data) ==
    IF ~(data.shape = "phone" /\ data.valid) THEN [q |-> 1, risk |-> "high"]
    ELSE IF data.type = "Mobile" THEN [q |-> 9, risk |-> "low"]
    ELSE IF data.type = "Landline" THEN [q |-> 7, risk |-> "low"]
    ELSE IF data.type = "Toll_Free" THEN [q |-> 5, risk |-> "medium"]
    ELSE [q |-> 8, risk |-> "low"]

\* route.ts 53-68: quality score (tenths) and risk level of a phone result
PhoneValid(data) == data.shape = "phone" /\ data.valid
PhoneScore(data) ==
    IF ~PhoneValid(data) THEN [q |-> 1, risk |-> "high"]
    ELSE IF data.type = "Mobile" THEN [q |-> 9, risk |-> "low"]
    ELSE IF data.type = "Landline" THEN [q |-> 7, risk |-> "low"]
    ELSE IF data.type = "Toll_Free" \/ data.type = "Unknown" THEN [q |-> 5, risk |-> "medium"]
    ELSE [q |-> 8, risk |-> "low"]

(***************************************************************************)
(* State.                                                                  *)
(*   now    Date.now()                                                     *)
(*   ticks  the idle clock advances made so far                            *)
(*   tz     the server's local time minus UTC, in ms                       *)
(*   store  the rows of verification_requests                              *)
(*   req    the endpoint requests, each at one of its await points         *)
(*   call   one call of a client function made directly by a caller        *)
(*   db     the module variable `db` of database.ts: 0 for null, else the   *)
(*          number of the connection it refers to                          *)
(*   conns  the connections opened so far, in the order they were opened   *)
(*   schema verification_requests exists in the database file              *)
(*   caller the callers of the functions of database.ts, each at one of    *)
(*          its await points                                               *)
(***************************************************************************)
VARIABLES now, ticks, tz, store, req, call, db, conns, schema, caller

dbvars == <<db, conns, schema, caller>>
vars == <<now, ticks, tz, store, req, call, db, conns, schema, caller>>

Requests == 1..NumRequests
\* UTC, and one hour west of it
ServerTimezones == {0, -3600000}
TickSteps == {RateLimitWindow}
NoHeaders == [xff |-> "", ua |-> ""]
\* the requests the model submits: every body without the two headers, and one with them
RequestInputs ==
    {[body |-> b, headers |-> NoHeaders] : b \in Bodies \ {[json |-> "object", phone |-> JsString(PhoneB)]}}
    \cup {[body |-> [json |-> "object", phone |-> JsString(PhoneB)],
           headers |-> [xff |-> "203.0.113.7", ua |-> "curl/8.0"]]}

NoOutcome == [kind |-> "none", status |-> 0, body |-> NoBody, text |-> FALSE]

\* the body of a 200 response, before there is one
NoResponse ==
    [requestId |-> 0, verificationCode |-> "", validation |-> NoBody,
     qualityScore |-> 0, riskLevel |-> "", responseTime |-> 0]

IdleRequest ==
    [pc |-> "idle", body |-> [json |-> "invalid", phone |-> JsUndefined],
     headers |-> NoHeaders,
     startTime |-> 0, attempt |-> 0, calls |-> 0, timer |-> 0, last |-> NoOutcome,
     data |-> NoBody, recId |-> 0, code |-> "", responseTime |-> 0,
     resp |-> 0, error |-> "", caught |-> "", queries |-> 0, inserts |-> 0, updates |-> 0, prior |-> {},
     out |-> NoResponse, client |-> ""]

IdleCall ==
    [pc |-> "idle", fn |-> "", keyOk |-> TRUE, attempt |-> 0, calls |-> 0, timer |-> 0,
     hist |-> <<>>, waits |-> <<>>, act |-> "", err |-> NoError, data |-> NoBody]

\* a connection returned by open(): closed or not, and whether the exec of the
\* schema statements issued on it has completed
\* epoch: the number of closeDatabase calls completed when it was opened
Connection(isOpen, ready, epoch) == [open |-> isOpen, ready |-> ready, epoch |-> epoch]

\* a record as the store functions return it, before there is one
NoRecord ==
    [id |-> 0, type |-> "", value |-> <<>>, status |-> "", verification_code |-> "",
     validation_data |-> Null, api_response_time |-> Null, quality_score |-> Null,
     risk_level |-> Null]
NoRequest ==
    [type |-> "", value |-> <<>>, status |-> "", ip_address |-> "", user_agent |-> "",
     validation_data |-> NoBody, api_response_time |-> 0, quality_score |-> 0,
     risk_level |-> ""]

Callers == 1..NumCallers
IdleCaller ==
    [pc |-> "idle", op |-> "", request |-> NoRequest, id |-> 0, mine |-> 0, h |-> 0,
     ops |-> 0, lastID |-> 0, code |-> "", ret |-> NoRecord, got |-> NoRecord,
     err |-> ""]

\* the store initialised by an earlier getDatabase: one connection, its schema
\* statements done
Initialised ==
    /\ db = 1
    /\ conns = <<Connection(TRUE, TRUE, 0)>>
    /\ schema = TRUE
    /\ caller = [c \in Callers |-> IdleCaller]

Init ==
    /\ now = 0
    /\ ticks = 0
    /\ tz \in ServerTimezones
    /\ store = <<>>
    /\ req = [r \in Requests |-> IdleRequest]
    /\ call = IdleCall
    /\ Initialised

\* a 502 response that appends what the upstream did to its message
RespondWithUpstream(q, status, error) ==
    [q EXCEPT !.pc = "done", !.resp = status, !.timer = 0,
              !.error = IF status = 502 THEN error \o ": " \o q.last.kind ELSE error]

\* NextResponse.json({error}, {status})
Respond(q, status, error) ==
    [q EXCEPT !.pc = "done", !.resp = status, !.error = error, !.timer = 0]

\* the outer catch answering as the catch of the external call does
InternalErrorAs502(q, exception) ==
    [Respond(q, 502, "Failed to validate phone with external service")
        EXCEPT !.caught = exception]

\* the outer catch, route.ts 108-114: the exception is logged, the answer is 500
InternalError(q, exception) ==
    [Respond(q, 500, "Internal server error") EXCEPT !.caught = exception]

(***************************************************************************)
(* POST, lines 5-24: read the body and validate the phone member.          *)
(***************************************************************************)
Arrive(r, body, headers) ==
    /\ req[r].pc = "idle"
    /\ call.pc = "idle"
    /\ r > 1 => req[r - 1].pc # "idle"
    /\ LET q == [req[r] EXCEPT !.body = body, !.headers = headers, !.startTime = now,
                                !.prior = {p \in Requests : req[p].pc = "done"}]
           phone == body.phone
       IN  req' = [req EXCEPT ![r] =
                IF body.json # "object"
                THEN InternalError(q, "body")
                ELSE IF Falsy(phone) \/ phone.t # "string"
                THEN Respond(q, 400, "Valid phone number is required")
                ELSE IF ~phoneRegexTest(phone.s)
                THEN Respond(q, 400, "Invalid phone number format")
                ELSE [q EXCEPT !.pc = "query"]]
    /\ UNCHANGED <<now, ticks, tz, store, call, dbvars>>

\* a check that also counts the requests for the same value still in flight,
\* as a check atomic with the insert would
RateLimitCheckCountingInFlight(r, storeOk) ==
    /\ req[r].pc = "query"
    /\ LET q == [req[r] EXCEPT !.queries = @ + 1]
           inFlight == \E p \in Requests \ {r} :
                          /\ req[p].pc \in {"fetch", "delay", "insert", "update"}
                          /\ req[p].body.phone = q.body.phone
       IN  req' = [req EXCEPT ![r] =
                IF ~storeOk
                THEN InternalError(q, "store")
                ELSE IF inFlight \/ recentAttempt(store, "phone", q.body.phone.s, now, tz)
                THEN Respond(q, 429, "Please wait before requesting another verification")
                ELSE [q EXCEPT !.pc = "fetch", !.attempt = 1, !.calls = 1,
                               !.timer = now + timeout]]
    /\ UNCHANGED <<now, ticks, tz, store, call, dbvars>>

\* the endpoint calling validatePhone before it looks at the recent attempts
RateLimitCheckAfterCall(r, storeOk) ==
    /\ req[r].pc = "query"
    /\ LET q == [req[r] EXCEPT !.queries = @ + 1, !.attempt = 1, !.calls = 1]
       IN  req' = [req EXCEPT ![r] =
                IF ~storeOk
                THEN InternalError(q, "store")
                ELSE IF recentAttempt(store, "phone", q.body.phone.s, now, tz)
                THEN Respond(q, 429, "Please wait before requesting another verification")
                ELSE [q EXCEPT !.pc = "fetch", !.timer = now + timeout]]
    /\ UNCHANGED <<now, ticks, tz, store, call, dbvars>>

(***************************************************************************)
(* POST, lines 26-44: the rate-limit query, and the first fetch of         *)
(* validatePhone when no recent attempt is found.                          *)
(***************************************************************************)
RateLimitCheck(r, storeOk) ==
    /\ req[r].pc = "query"
    /\ LET q == [req[r] EXCEPT !.queries = @ + 1]
       IN  req' = [req EXCEPT ![r] =
                IF ~storeOk
                THEN InternalError(q, "store")
                ELSE IF recentAttempt(store, "phone", q.body.phone.s, now, tz)
                THEN Respond(q, 429, "Please wait before requesting another verification")
                ELSE [q EXCEPT !.pc = "fetch", !.attempt = 1, !.calls = 1,
                               !.timer = now + timeout]]
    /\ UNCHANGED <<now, ticks, tz, store, call, dbvars>>

\* the request fields of createVerificationRequest, route.ts 71-81
RequestRow(q) ==
    [type |-> "phone",
     value |-> q.body.phone.s,
     status |-> IF PhoneValid(q.data) THEN "verified" ELSE "failed",
     ip_address |-> IF q.headers.xff # "" THEN q.headers.xff ELSE "unknown",
     user_agent |-> IF q.headers.ua # "" THEN q.headers.ua ELSE "unknown",
     validation_data |-> q.data,
     api_response_time |-> 0,
     quality_score |-> PhoneScore(q.data).q,
     risk_level |-> PhoneScore(q.data).risk]

(***************************************************************************)
(* validatePhone, one loop iteration ending at its fetch, and POST lines   *)
(* 45-68 when the call returns or raises.                                  *)
(***************************************************************************)
FetchResolve(r, o) ==
    /\ req[r].pc = "fetch"
    /\ o.kind # "timeout" => now < req[r].timer
    /\ now' = IF o.kind = "timeout" THEN Max(now, req[r].timer) ELSE now
    /\ LET res == validatePhoneAttempt(req[r].attempt, o)
           q == [req[r] EXCEPT !.last = o]
       IN  req' = [req EXCEPT ![r] =
                CASE res.act = "throw" ->
                        Respond(q, 502, "Failed to validate phone with external service")
                  [] res.act = "return" ->
                        IF res.data.shape = "null"
                        THEN InternalError([q EXCEPT !.data = res.data], "data")
                        ELSE [q EXCEPT !.pc = "insert", !.data = res.data, !.timer = 0]
                  [] res.act = "retry" /\ res.delay # <<>> ->
                        [q EXCEPT !.pc = "delay", !.timer = now' + res.delay[1]]
                  [] res.act = "retry" /\ res.delay = <<>> ->
                        IF LoopCondition(q.attempt + 1)
                        THEN [q EXCEPT !.attempt = @ + 1, !.calls = @ + 1,
                                       !.timer = now' + timeout]
                        ELSE Respond(q, 502, "Failed to validate phone with external service")]
    /\ UNCHANGED <<ticks, tz, store, call, dbvars>>

\* validatePhone: the backoff timer fires and the next iteration issues its fetch
BackoffElapsed(r) ==
    /\ req[r].pc = "delay"
    /\ now' = Max(now, req[r].timer)
    /\ req' = [req EXCEPT ![r] =
            IF LoopCondition(req[r].attempt + 1)
            THEN [@ EXCEPT !.pc = "fetch", !.attempt = @ + 1, !.calls = @ + 1,
                           !.timer = now' + timeout, !.last = NoOutcome]
            ELSE Respond(@, 502, "Failed to validate phone with external service")]
    /\ UNCHANGED <<ticks, tz, store, call, dbvars>>

\* a handler that stops, with nothing stored, once its client has gone
InsertUnlessClientGone(r, storeOk, code) ==
    /\ req[r].pc = "insert"
    /\ IF ~storeOk
       THEN /\ req' = [req EXCEPT ![r] = InternalError(@, "store")]
            /\ store' = store
       ELSE IF req[r].client = "aborted"
       THEN /\ req' = [req EXCEPT ![r] = [@ EXCEPT !.pc = "done"]]
            /\ store' = store
       ELSE /\ store' = createVerificationRequest(store, RequestRow(req[r]), code, now)
            /\ req' = [req EXCEPT ![r] = [@ EXCEPT !.pc = "update", !.inserts = @ + 1,
                                                   !.recId = Len(store) + 1,
                                                   !.code = code,
                                                   !.responseTime = now - req[r].startTime]]
    /\ UNCHANGED <<now, ticks, tz, call, dbvars>>

(***************************************************************************)
(* POST, lines 70-93: insert the record, take the response time, and       *)
(* start the update.                                                       *)
(***************************************************************************)
Insert(r, storeOk, code) ==
    /\ req[r].pc = "insert"
    /\ IF ~storeOk
       THEN /\ req' = [req EXCEPT ![r] = InternalError(@, "store")]
            /\ store' = store
       ELSE /\ store' = createVerificationRequest(store, RequestRow(req[r]), code, now)
            /\ req' = [req EXCEPT ![r] = [@ EXCEPT !.pc = "update", !.inserts = @ + 1,
                                                   !.recId = Len(store) + 1,
                                                   !.code = code,
                                                   !.responseTime = now - req[r].startTime]]
    /\ UNCHANGED <<now, ticks, tz, call, dbvars>>

\* route.ts 96-106: the body of the 200 response, from the handler's locals
ResponseBody(q) ==
    [requestId |-> q.recId,
     verificationCode |-> q.code,
     validation |-> q.data,
     qualityScore |-> PhoneScore(q.data).q,
     riskLevel |-> PhoneScore(q.data).risk,
     responseTime |-> q.responseTime]

\* POST, lines 91-106: the update, and the 200 response
Update(r, storeOk) ==
    /\ req[r].pc = "update"
    /\ IF ~storeOk
       THEN /\ req' = [req EXCEPT ![r] = InternalError(@, "store")]
            /\ store' = store
       ELSE /\ store' = updateVerificationRequest(store, req[r].recId,
                        [NoUpdates EXCEPT !.api_response_time = Some(req[r].responseTime)],
                        now)
            /\ req' = [req EXCEPT ![r] =
                    Respond([@ EXCEPT !.updates = @ + 1, !.out = ResponseBody(req[r])], 200, "")]
    /\ UNCHANGED <<now, ticks, tz, call, dbvars>>

\* time passes between requests
Tick(d) ==
    /\ ticks < MaxTicks
    /\ call.pc = "idle"
    /\ \A r \in Requests : req[r].pc \in {"idle", "done"}
    /\ now' = now + d
    /\ ticks' = ticks + 1
    /\ UNCHANGED <<tz, store, req, call, dbvars>>

(***************************************************************************)
(* A caller invokes validateEmail, getEmailReputation or validatePhone     *)
(* directly (abstract-api.ts 143-360).                                     *)
(***************************************************************************)
\* the call after one loop iteration has ended with res
AfterAttempt(c, res, t) ==
    CASE res.act \in {"return", "throw"} ->
            [c EXCEPT !.pc = "done", !.act = res.act, !.err = res.err, !.data = res.data]
      [] res.act = "retry" /\ res.delay # <<>> ->
            [c EXCEPT !.pc = "delay", !.waits = Append(@, res.delay[1]),
                      !.timer = t + res.delay[1]]
      [] res.act = "retry" /\ res.delay = <<>> ->
            IF LoopCondition(c.attempt + 1)
            THEN [c EXCEPT !.attempt = @ + 1, !.calls = @ + 1, !.timer = t + timeout]
            ELSE [c EXCEPT !.pc = "done", !.act = "throw", !.err = AfterLoop(c.fn)]

CallStart(fn, keyOk) ==
    /\ call.pc = "idle"
    /\ \A r \in Requests : req[r].pc = "idle"
    /\ ticks = 0
    /\ keyOk \/ fn = "validateEmail"
    /\ LET c == [call EXCEPT !.fn = fn, !.keyOk = keyOk, !.attempt = 1]
       IN  call' = IF fn = "validateEmail" /\ ~keyOk
                   THEN AfterAttempt(c, validateEmailAttempt(1, FALSE, NoOutcome), now)
                   ELSE [c EXCEPT !.pc = "fetch", !.calls = 1, !.timer = now + timeout]
    /\ UNCHANGED <<now, ticks, tz, store, req, dbvars>>

CallResolve(o) ==
    /\ call.pc = "fetch"
    /\ o \in Outcomes(call.fn)
    /\ o.kind # "timeout" => now < call.timer
    /\ now' = IF o.kind = "timeout" THEN Max(now, call.timer) ELSE now
    /\ call' = AfterAttempt([call EXCEPT !.hist = Append(@, o)],
                            Attempt(call.fn, call.attempt, call.keyOk, o), now')
    /\ UNCHANGED <<ticks, tz, store, req, dbvars>>

\* a loop that repeats the attempt after a backoff without counting it
CallBackoffElapsedSameAttempt ==
    /\ call.pc = "delay"
    /\ now' = Max(now, call.timer)
    /\ call' = [call EXCEPT !.pc = "fetch", !.calls = @ + 1, !.timer = now' + timeout]
    /\ UNCHANGED <<ticks, tz, store, req, dbvars>>

CallBackoffElapsed ==
    /\ call.pc = "delay"
    /\ now' = Max(now, call.timer)
    /\ call' = IF LoopCondition(call.attempt + 1)
               THEN [call EXCEPT !.pc = "fetch", !.attempt = @ + 1, !.calls = @ + 1,
                                 !.timer = now' + timeout]
               ELSE [call EXCEPT !.pc = "done", !.act = "throw", !.err = AfterLoop(call.fn)]
    /\ UNCHANGED <<ticks, tz, store, req, dbvars>>

Next ==
    \/ \E r \in Requests, in \in RequestInputs : Arrive(r, in.body, in.headers)
    \/ \E r \in Requests, storeOk \in BOOLEAN : RateLimitCheck(r, storeOk)
    \/ \E r \in Requests, o \in EndpointOutcomes : FetchResolve(r, o)
    \/ \E r \in Requests : BackoffElapsed(r)
    \/ \E r \in Requests, storeOk \in BOOLEAN, code \in VerificationCodes :
          Insert(r, storeOk, code)
    \/ \E r \in Requests, storeOk \in BOOLEAN : Update(r, storeOk)
    \/ \E d \in TickSteps : Tick(d)
    \/ \E fn \in ClientFunctions, keyOk \in BOOLEAN : CallStart(fn, keyOk)
    \/ \E o \in UNION {Outcomes(fn) : fn \in ClientFunctions} : CallResolve(o)
    \/ CallBackoffElapsed

\* The endpoint, whose store operations succeed or throw (storeOk), and the
\* client functions called directly.
Spec == Init /\ [][Next]_vars

\* every outcome of one fetch of validatePhone: every error status, a network
\* failure, a timeout, and a 2xx answer with any phone result or malformed body
SingleRequestOutcomes ==
    FailureOutcomes("validatePhone")
    \cup {Http(200, b, FALSE) : b \in PhoneBodies \cup MalformedBodies}

(***************************************************************************)
(* The store operations of database.ts called directly, in any order, with *)
(* known and unknown ids.                                                  *)
(***************************************************************************)
MaxRows == 2          \* rows inserted per behaviour

EmailA == <<"a", "@", "b", ".", "c", "o">>
\* arguments of createVerificationRequest
StoreRequests ==
    { [type |-> "phone", value |-> PhoneA, status |-> "verified",
       ip_address |-> "203.0.113.7", user_agent |-> "curl/8.0",
       validation_data |-> Body("phone", TRUE, "Mobile"),
       api_response_time |-> 0, quality_score |-> 9, risk_level |-> "low"],
      [type |-> "email", value |-> EmailA, status |-> "",
       ip_address |-> "unknown", user_agent |-> "unknown",
       validation_data |-> Body("zero", FALSE, ""),
       api_response_time |-> 0, quality_score |-> 0, risk_level |-> ""] }
\* arguments of updateVerificationRequest
StoreUpdates ==
    { NoUpdates,
      [NoUpdates EXCEPT !.api_response_time = Some(1200)],
      [NoUpdates EXCEPT !.status = Some("failed")],
      [NoUpdates EXCEPT !.status = Some("verified"),
                        !.validation_data = Some(Body("email", TRUE, "")),
                        !.quality_score = Some(8), !.risk_level = Some("low")] }
\* ids passed to the update operations: 0 and MaxRows + 1 are never in the table
StoreIds == 0..(MaxRows + 1)

StoreCreate(request, code) ==
    /\ Len(store) < MaxRows
    /\ store' = createVerificationRequest(store, request, code, now)
    /\ UNCHANGED <<now, ticks, tz, req, call, dbvars>>

StoreUpdate(id, updates) ==
    /\ store' = updateVerificationRequest(store, id, updates, now)
    /\ UNCHANGED <<now, ticks, tz, req, call, dbvars>>

StoreUpdateStatus(id, status) ==
    /\ store' = updateVerificationStatus(store, id, status, now)
    /\ UNCHANGED <<now, ticks, tz, req, call, dbvars>>

NextStore ==
    \/ \E request \in StoreRequests, code \in VerificationCodes : StoreCreate(request, code)
    \/ \E id \in StoreIds, updates \in StoreUpdates : StoreUpdate(id, updates)
    \/ \E id \in StoreIds, status \in {"verified", "failed"} : StoreUpdateStatus(id, status)
    \/ \E d \in TickSteps : Tick(d)

SpecStore == Init /\ [][NextStore]_vars

\* the row left by an earlier request for PhoneA, answered 200 a moment ago
EarlierRecord ==
    [InsertedRow(<<>>, [type |-> "phone", value |-> PhoneA, status |-> "verified",
                        ip_address |-> "unknown", user_agent |-> "unknown",
                        validation_data |-> Body("phone", TRUE, "Mobile"),
                        api_response_time |-> 0, quality_score |-> 9, risk_level |-> "low"],
                 "K3X9QZ", 0)
     EXCEPT !.api_response_time = Some(0)]

\* the table is empty, or holds the row of an earlier request
InitSingle ==
    /\ now = 0
    /\ ticks = 0
    /\ tz \in ServerTimezones
    /\ store \in {<<>>, <<EarlierRecord>>}
    /\ req = [r \in Requests |-> IdleRequest]
    /\ call = IdleCall
    /\ Initialised

NextSingle ==
    \/ \E in \in RequestInputs : Arrive(1, in.body, in.headers)
    \/ \E storeOk \in BOOLEAN : RateLimitCheck(1, storeOk)
    \/ \E o \in SingleRequestOutcomes : FetchResolve(1, o)
    \/ BackoffElapsed(1)
    \/ \E storeOk \in BOOLEAN, code \in VerificationCodes : Insert(1, storeOk, code)
    \/ \E storeOk \in BOOLEAN : Update(1, storeOk)

\* One request to the endpoint, against every upstream outcome.  Each await of
\* the handler settles: the fetch resolves or is aborted by its 10 s timer, a
\* backoff timer fires, a store operation resolves or throws.
SpecSingle == InitSingle /\ [][NextSingle]_vars /\ WF_vars(NextSingle)

(***************************************************************************)
(* The email rule table of the Scoring Engine, applied to the result of a  *)
(* successful validateEmail call.  Quality scores are in tenths.           *)
(***************************************************************************)
MaxBreaches == 2      \* largest total_breaches of a payload

RiskStatuses == {"low", "medium", "high"}
\* the fields of an email result the scoring reads: email_deliverability.status
\* is "deliverable", email_quality.score, email_risk.address_risk_status,
\* email_risk.domain_risk_status, email_breaches.total_breaches
EmailPayloads ==
    [shape : {"email"}, deliverable : BOOLEAN, q : 0..10,
     address : RiskStatuses, domain : RiskStatuses, breaches : 0..MaxBreaches]

\* risk tier from Q: Q < 0.3 high, 0.3 <= Q <= 0.7 medium, Q > 0.7 low
EmailBaseTier(q) == IF q < 3 THEN "high" ELSE IF q <= 7 THEN "medium" ELSE "low"

\* a medium risk status that sets the tier to medium whatever it was
EmailAfterRiskStatusOverride(p) ==
    IF p.address = "high" \/ p.domain = "high" THEN "high"
    ELSE IF p.address = "medium" \/ p.domain = "medium" THEN "medium"
    ELSE EmailBaseTier(p.q)

\* the tier after the two risk-status rules
EmailAfterRiskStatus(p) ==
    IF p.address = "high" \/ p.domain = "high" THEN "high"
    ELSE IF (p.address = "medium" \/ p.domain = "medium") /\ EmailBaseTier(p.q) = "low"
    THEN "medium"
    ELSE EmailBaseTier(p.q)

\* one step up: low -> medium, medium -> high, high -> high
EscalateOneStep(tier) ==
    IF tier = "low" THEN "medium" ELSE "high"

\* quality score and risk tier of an email result
EmailScore(p) ==
    IF ~p.deliverable THEN [q |-> 1, risk |-> "high"]
    ELSE [q |-> p.q,
          risk |-> IF p.breaches > 0 THEN EscalateOneStep(EmailAfterRiskStatus(p))
                   ELSE EmailAfterRiskStatus(p)]

\* the record of an email request whose external call returned p
EmailRequestRow(p) ==
    [type |-> "email",
     value |-> EmailA,
     status |-> IF p.deliverable THEN "verified" ELSE "failed",
     ip_address |-> "unknown",
     user_agent |-> "unknown",
     validation_data |-> p,
     api_response_time |-> 0,
     quality_score |-> EmailScore(p).q,
     risk_level |-> EmailScore(p).risk]

\* an email request is scored and its record persisted
EmailScored(p, code) ==
    /\ store = <<>>
    /\ store' = createVerificationRequest(store, EmailRequestRow(p), code, now)
    /\ UNCHANGED <<now, ticks, tz, req, call, dbvars>>

NextEmail ==
    \E p \in EmailPayloads, code \in VerificationCodes : EmailScored(p, code)

\* The Scoring Engine on every email payload of the bounded set.
SpecEmail == Init /\ [][NextEmail]_vars

(***************************************************************************)
(* database.ts at the grain of its awaits: callers of                      *)
(* createVerificationRequest, getVerificationRequest and closeDatabase     *)
(* running concurrently from a cold start (db is null, the file has no     *)
(* table).  The driver runs exec and close exclusively on a connection:    *)
(* a statement issued on a connection waits for the exec pending on it.    *)
(***************************************************************************)
\* the object createVerificationRequest returns, database.ts 93-100
ReturnedRecord(id, request, code) ==
    [id |-> id,
     type |-> request.type,
     value |-> request.value,
     status |-> IF request.status = "" THEN "pending" ELSE request.status,
     verification_code |-> code,
     validation_data |-> Some(request.validation_data),
     api_response_time |-> Some(request.api_response_time),
     quality_score |-> Some(request.quality_score),
     risk_level |-> IF request.risk_level = "" THEN Null ELSE Some(request.risk_level)]

\* getVerificationRequest(id): the row with its validation_data parsed, or null
getVerificationRequest(st, id) ==
    IF \A i \in DOMAIN st : st[i].id # id THEN NoRecord
    ELSE LET row == st[CHOOSE i \in DOMAIN st : st[i].id = id]
         IN  [id |-> row.id, type |-> row.type, value |-> row.value, status |-> row.status,
              verification_code |-> row.verification_code,
              validation_data |-> IF row.validation_data.null THEN Null
                                  ELSE Some(JSONParse(row.validation_data.v)),
              api_response_time |-> row.api_response_time,
              quality_score |-> row.quality_score,
              risk_level |-> row.risk_level]

DbOps == {"create", "get", "close"}
\* the creates that have not executed their INSERT yet
PendingCreates ==
    {c \in Callers : caller[c].op = "create" /\ caller[c].pc \in {"open", "exec", "run"}}
ClosedCount == Cardinality({k \in DOMAIN conns : ~conns[k].open})

\* a caller calls op: the synchronous start of getDatabase (lines 7-10) or of
\* closeDatabase (line 45)
StartOp(c, op, request, id) ==
    /\ caller[c].pc \in {"idle", "done"}
    /\ caller[c].ops < MaxOps
    /\ op = "create" => Len(store) + Cardinality(PendingCreates) < MaxRows
    /\ LET k == [caller[c] EXCEPT !.op = op, !.ops = @ + 1, !.err = "", !.mine = 0,
                                  !.request = IF op = "create" THEN request ELSE NoRequest,
                                  !.id = IF op = "get" THEN id ELSE 0]
       IN  caller' = [caller EXCEPT ![c] =
                IF op = "close"
                THEN IF db # 0 THEN [k EXCEPT !.pc = "closing", !.h = db]
                     ELSE [k EXCEPT !.pc = "done", !.h = 0]
                ELSE IF db # 0 THEN [k EXCEPT !.pc = "run", !.h = db]
                     ELSE [k EXCEPT !.pc = "open", !.h = 0]]
    /\ UNCHANGED <<now, ticks, tz, store, req, call, db, conns, schema>>

\* getDatabase, lines 10-16: open() resolves, db is assigned, exec is issued
OpenResolve(c) ==
    /\ caller[c].pc = "open"
    /\ conns' = Append(conns, Connection(TRUE, FALSE, ClosedCount))
    /\ db' = Len(conns) + 1
    /\ caller' = [caller EXCEPT ![c] = [@ EXCEPT !.pc = "exec", !.mine = Len(conns) + 1]]
    /\ UNCHANGED <<now, ticks, tz, store, req, call, schema>>

\* getDatabase, lines 16-41: exec resolves and `return db` hands out the module
\* variable as it is now
ExecResolve(c) ==
    /\ caller[c].pc = "exec"
    /\ schema' = TRUE
    /\ conns' = [conns EXCEPT ![caller[c].mine].ready = TRUE]
    /\ caller' = [caller EXCEPT ![c] = [@ EXCEPT !.pc = "run", !.h = db]]
    /\ UNCHANGED <<now, ticks, tz, store, req, call, db>>


\* the operation of c ends with an exception
Fail(k, err) == [k EXCEPT !.pc = "done", !.err = err]

\* the last row id of the database file, whoever inserted it
LastIDOfFile(c) == Len(store)
\* result.lastID of the INSERT statement of c
LastID(c) == caller[c].lastID

\* the statement of createVerificationRequest (lines 76-91) or of
\* getVerificationRequest (line 134) runs on the handle getDatabase returned
RunStatement(c, code) ==
    /\ caller[c].pc = "run"
    /\ LET k == caller[c]
       IN  /\ (k.h # 0 /\ conns[k.h].open) => conns[k.h].ready
           /\ IF k.h = 0
              THEN caller' = [caller EXCEPT ![c] = Fail(k, "TypeError")] /\ store' = store
              ELSE IF ~conns[k.h].open
              THEN caller' = [caller EXCEPT ![c] = Fail(k, "closed")] /\ store' = store
              ELSE IF ~schema
              THEN caller' = [caller EXCEPT ![c] = Fail(k, "no such table")] /\ store' = store
              ELSE IF k.op = "create"
              THEN /\ store' = createVerificationRequest(store, k.request, code, now)
                   /\ caller' = [caller EXCEPT ![c] =
                           [k EXCEPT !.pc = "return", !.lastID = Len(store) + 1,
                                     !.code = code]]
              ELSE /\ store' = store
                   /\ caller' = [caller EXCEPT ![c] =
                           [k EXCEPT !.pc = "done",
                                     !.got = getVerificationRequest(store, k.id)]]
    /\ UNCHANGED <<now, ticks, tz, req, call, db, conns, schema>>

\* createVerificationRequest, lines 93-100: db.run has resolved
CreateReturn(c) ==
    /\ caller[c].pc = "return"
    /\ caller' = [caller EXCEPT ![c] =
            [@ EXCEPT !.pc = "done",
                      !.ret = ReturnedRecord(LastID(c), caller[c].request, caller[c].code)]]
    /\ UNCHANGED <<now, ticks, tz, store, req, call, db, conns, schema>>

\* closeDatabase, lines 46-47: close() resolves and db is set to null
CloseResolve(c) ==
    /\ caller[c].pc = "closing"
    /\ LET k == caller[c]
       IN  /\ conns[k.h].open => conns[k.h].ready
           /\ IF ~conns[k.h].open
              THEN /\ caller' = [caller EXCEPT ![c] = Fail(k, "closed")]
                   /\ UNCHANGED <<db, conns>>
              ELSE /\ conns' = [conns EXCEPT ![k.h].open = FALSE]
                   /\ db' = 0
                   /\ caller' = [caller EXCEPT ![c] = [k EXCEPT !.pc = "done"]]
    /\ UNCHANGED <<now, ticks, tz, store, req, call, schema>>

\* a cold start: no handle, no connection, no table
InitDb ==
    /\ now = 0
    /\ ticks = 0
    /\ tz = 0
    /\ store = <<>>
    /\ req = [r \in Requests |-> IdleRequest]
    /\ call = IdleCall
    /\ db = 0
    /\ conns = <<>>
    /\ schema = FALSE
    /\ caller = [c \in Callers |-> IdleCaller]

NextDb ==
    \/ \E c \in Callers, op \in DbOps, request \in StoreRequests, id \in StoreIds :
          StartOp(c, op, request, id)
    \/ \E c \in Callers : OpenResolve(c)
    \/ \E c \in Callers : ExecResolve(c)
    \/ \E c \in Callers, code \in VerificationCodes : RunStatement(c, code)
    \/ \E c \in Callers : CreateReturn(c)
    \/ \E c \in Callers : CloseResolve(c)

\* Concurrent callers of the store functions, from a cold start.
SpecDb == InitDb /\ [][NextDb]_vars

(***************************************************************************)
(* The page as the caller of the endpoint (page.tsx 179-239): it submits   *)
(* the phone field, aborts its fetch after 15 s, and lets the user submit  *)
(* again once the fetch has settled.  The handler never looks at the       *)
(* request's abort signal, so an abort changes nothing on the server.      *)
(***************************************************************************)
\* the time the page's AbortController fires for request r
Deadline(r) == req[r].startTime + ClientTimeout
InFlight(r) == req[r].pc \notin {"idle", "done"}
\* what the upstream does with a fetch in this specification
ClientOutcomes == {TimerAbort, Http(200, Body("phone", TRUE, "Mobile"), FALSE)}

\* handlePhoneValidation: fetch('/api/verify/phone', {body: JSON.stringify({phone})})
ClientSubmit(r, phone) ==
    /\ r > 1 => (req[r - 1].pc = "done" \/ req[r - 1].client = "aborted")
    /\ Arrive(r, [json |-> "object", phone |-> JsString(phone)], NoHeaders)

\* the 15 s timer of the page fires before the response has come: the fetch
\* rejects with AbortError and the page reports the request as failed
ClientAbort(r) ==
    /\ InFlight(r)
    /\ req[r].client = ""
    /\ now <= Deadline(r)
    /\ \A p \in Requests : req[p].pc \in {"fetch", "delay"} => req[p].timer >= Deadline(r)
    /\ now' = Deadline(r)
    /\ req' = [req EXCEPT ![r].client = "aborted"]
    /\ UNCHANGED <<ticks, tz, store, call, dbvars>>

NextClient ==
    \/ \E r \in Requests, phone \in {PhoneA, PhoneB} : ClientSubmit(r, phone)
    \/ \E r \in Requests : ClientAbort(r)
    \/ \E r \in Requests, storeOk \in BOOLEAN : RateLimitCheck(r, storeOk)
    \/ \E r \in Requests, o \in ClientOutcomes : FetchResolve(r, o)
    \/ \E r \in Requests : BackoffElapsed(r)
    \/ \E r \in Requests, storeOk \in BOOLEAN, code \in VerificationCodes :
          Insert(r, storeOk, code)
    \/ \E r \in Requests, storeOk \in BOOLEAN : Update(r, storeOk)

\* servers at UTC, one hour west and one hour east of it
ClientTimezones == {0, -3600000, 3600000}
InitClient ==
    /\ now = 0
    /\ ticks = 0
    /\ tz \in ClientTimezones
    /\ store = <<>>
    /\ req = [r \in Requests |-> IdleRequest]
    /\ call = IdleCall
    /\ Initialised

\* The page submitting to the endpoint, with upstream timeouts.
SpecClient == InitClient /\ [][NextClient]_vars

(***************************************************************************)
(* One call of a client function, each of whose awaits settles: the fetch  *)
(* resolves, rejects or is aborted by its 10 s timer, and a backoff timer  *)
(* fires.                                                                  *)
(***************************************************************************)
NextCall ==
    \/ \E fn \in ClientFunctions, keyOk \in BOOLEAN : CallStart(fn, keyOk)
    \/ \E o \in UNION {Outcomes(fn) : fn \in ClientFunctions} : CallResolve(o)
    \/ CallBackoffElapsed

SpecCall == Init /\ [][NextCall]_vars /\ WF_vars(NextCall)

(***************************************************************************)
(* Vocabulary of the properties.                                           *)
(***************************************************************************)
Answered(r) == req[r].pc = "done"
\* r passed input validation and the rate-limit check
Accepted(r) == req[r].calls > 0
\* a store operation of r threw, and r was answered 500
StoreFailed(r) == req[r].resp = 500 /\ req[r].caught = "store"
SameValue(p, q) ==
    /\ req[p].body.json = "object" /\ req[q].body.json = "object"
    /\ req[p].body.phone = req[q].body.phone
\* an HTTP status in [400,500) other than 429
ClientError(o) == o.kind = "http" /\ o.status \in 400..499 /\ o.status # 429
\* status >= 500, status 429, or a network failure or timeout
RetryableFailure(o) ==
    \/ o.kind \in {"network", "timeout"}
    \/ o.kind = "http" /\ (o.status >= 500 \/ o.status = 429)
\* a 2xx answer with the fields fn requires
WellFormed(fn, o) ==
    /\ o.kind = "http" /\ o.status \in 200..299
    /\ o.body.shape = (IF fn = "validatePhone" THEN "phone" ELSE "email")
\* optional leading +, then at least 10 characters, each a digit, whitespace,
\* hyphen or parenthesis
MatchesPhonePattern(chars) ==
    \E plus \in {0, 1} :
        /\ plus = 1 => (Len(chars) >= 1 /\ chars[1] = "+")
        /\ Len(chars) - plus >= 10
        /\ \A i \in (plus + 1)..Len(chars) :
              chars[i] \in {"0", "1", "2", "3", "4", "5", "6", "7", "8", "9",
                            " ", "-", "(", ")"}
\* a phone member that is missing, not a string, empty, or off the pattern
BadPhone(v) == v.t # "string" \/ v.s = <<>> \/ ~MatchesPhonePattern(v.s)
NonPending(row) == row.status \in {"verified", "failed"}
Present(field) == ~field.null

(***************************************************************************)
(* C1.  A request that arrives less than 5 minutes after a prior request   *)
(* for the same value that passed validation and the rate-limit check, and *)
(* was answered 200 or 502, is answered 429 (500 when the store fails to   *)
(* answer the query for recent attempts) and reaches no external call.     *)
(***************************************************************************)
C1_RateLimitedAfterPrior ==
    \A p, q \in Requests :
        ( /\ Answered(q) /\ p \in req[q].prior
          /\ SameValue(p, q) /\ ~BadPhone(req[q].body.phone)
          /\ req[p].resp \in {200, 502}
          /\ req[q].startTime - req[p].startTime < RateLimitWindow )
        => /\ req[q].calls = 0
           /\ req[q].resp = 429 \/ StoreFailed(q)

(***************************************************************************)
(* C2.  In validateEmail and validatePhone a status in [400,500) other     *)
(* than 429 ends the call on whichever attempt it occurs: the call has     *)
(* failed and no further request is made; at the endpoint a 404 means one  *)
(* external call and a 502.                                                *)
(***************************************************************************)
C2_ClientErrorIsTerminal ==
    /\ call.fn \in {"validateEmail", "validatePhone"} =>
          \A i \in 1..Len(call.hist) :
              ClientError(call.hist[i]) =>
                  /\ Len(call.hist) = i /\ call.calls = i
                  /\ call.pc = "done" /\ call.act = "throw"
    /\ \A r \in Requests :
          ClientError(req[r].last) =>
              /\ Answered(r) /\ req[r].resp = 502 /\ req[r].calls = 1

(***************************************************************************)
(* C3.  One call of validateEmail, validatePhone or getEmailReputation     *)
(* issues at most 3 external requests, whatever the upstream does.         *)
(***************************************************************************)
C3_AtMostThreeRequests ==
    /\ call.calls <= 3 /\ Len(call.hist) <= 3
    /\ \A r \in Requests : req[r].calls <= 3

\* a call whose third attempt failed: it has ended, with 3 requests made
C3_Witness ==
    /\ call.pc = "done" /\ call.act = "throw" /\ call.calls = 3
    /\ Len(call.hist) = 3 /\ call.hist[3] = TimerAbort

(***************************************************************************)
(* C4.  When the first k attempts (k = 1 or 2) fail with a retryable       *)
(* condition and attempt k+1 is a well-formed 2xx answer, the call makes   *)
(* exactly k+1 requests and returns that answer: after k retryable         *)
(* failures it goes on to attempt k+1, and the well-formed answer ends it. *)
(* The endpoint, whose call returned a well-formed answer at attempt k+1,  *)
(* answers 200 (500 when a store operation of the request throws).         *)
(***************************************************************************)
C4_RetryThenSuccess ==
    /\ call.fn \in {"validateEmail", "validatePhone"} =>
          \A k \in {1, 2} :
              /\ ( /\ Len(call.hist) = k
                   /\ \A i \in 1..k : RetryableFailure(call.hist[i]) )
                 => call.pc # "done"
              /\ ( /\ Len(call.hist) = k + 1
                   /\ \A i \in 1..k : RetryableFailure(call.hist[i])
                   /\ WellFormed(call.fn, call.hist[k + 1]) )
                 => /\ call.pc = "done" /\ call.act = "return"
                    /\ call.data = call.hist[k + 1].body
                    /\ call.calls = k + 1
    /\ \A r \in Requests :
          WellFormed("validatePhone", req[r].last) =>
              /\ req[r].calls = req[r].attempt
              /\ req[r].data = req[r].last.body
              /\ Answered(r) => req[r].resp = 200 \/ StoreFailed(r)

\* a request whose first two external calls failed and whose third was answered
\* with a well-formed body: three calls made, the record stored, 200 answered
C4_Witness ==
    \E r \in Requests :
        /\ Answered(r) /\ req[r].resp = 200 /\ req[r].calls = 3
        /\ WellFormed("validatePhone", req[r].last)
        /\ req[r].recId \in DOMAIN store

(***************************************************************************)
(* C5.  A request answered 429 has no side effects: no external request    *)
(* was issued for it and it inserted and updated no record.                *)
(***************************************************************************)
C5_RateLimitedHasNoEffect ==
    \A r \in Requests :
        (Answered(r) /\ req[r].resp = 429) =>
            /\ req[r].calls = 0 /\ req[r].inserts = 0 /\ req[r].updates = 0
            /\ req[r].recId = 0

C5_Witness == \E r \in Requests : Answered(r) /\ req[r].resp = 429

(***************************************************************************)
(* C6.  A phone member that is missing, not a string, empty or off the     *)
(* pattern is answered 400 with no store query, no insert and no external  *)
(* call.                                                                   *)
(***************************************************************************)
C6_InvalidInputRejectedFirst ==
    \A r \in Requests :
        (req[r].pc # "idle" /\ req[r].body.json = "object" /\ BadPhone(req[r].body.phone)) =>
            /\ Answered(r) /\ req[r].resp = 400
            /\ req[r].queries = 0 /\ req[r].inserts = 0 /\ req[r].updates = 0
            /\ req[r].calls = 0

\* "abc" was submitted and answered 400 while the store holds another request's record
C6_Witness ==
    \E r \in Requests :
        /\ req[r].body = [json |-> "object", phone |-> JsString(<<"a", "b", "c">>)]
        /\ Answered(r) /\ req[r].resp = 400
        /\ store # <<>>

(***************************************************************************)
(* C7.  Every request that passes input validation and the rate-limit      *)
(* check creates exactly one record, whether its external call succeeds    *)
(* or fails; requests answered 400 or 429 create none.                     *)
(***************************************************************************)
C7_OneRecordPerAcceptedRequest ==
    \A r \in Requests :
        Answered(r) =>
            /\ (Accepted(r) /\ req[r].resp \in {200, 502}) => req[r].inserts = 1
            /\ req[r].resp \in {400, 429} => req[r].inserts = 0

(***************************************************************************)
(* C8.  When the external call fails terminally the endpoint answers 502   *)
(* and the record created for the request is in the store with status      *)
(* pending.                                                                *)
(***************************************************************************)
C8_FailedCallLeavesPendingRecord ==
    \A r \in Requests :
        (Answered(r) /\ req[r].resp = 502) =>
            /\ req[r].recId \in DOMAIN store
            /\ store[req[r].recId].status = "pending"

(***************************************************************************)
(* C9.  Every record is created with status pending, and a status changes  *)
(* only from pending to verified or failed.                                *)
(***************************************************************************)
C9_StatusLifecycle ==
    [][ /\ \A i \in DOMAIN store' \ DOMAIN store : store'[i].status = "pending"
        /\ \A i \in DOMAIN store :
              store'[i].status # store[i].status =>
                  /\ store[i].status = "pending"
                  /\ store'[i].status \in {"verified", "failed"} ]_vars

(***************************************************************************)
(* C10. Every record whose status is verified or failed has                *)
(* validation_data, quality_score and risk_level present.                  *)
(***************************************************************************)
C10_NonPendingIsComplete ==
    \A i \in DOMAIN store :
        NonPending(store[i]) =>
            /\ Present(store[i].validation_data)
            /\ Present(store[i].quality_score)
            /\ Present(store[i].risk_level)

(***************************************************************************)
(* C11. Before attempt n+1 (n = 1 or 2) a validation call has waited       *)
(* min(1000 * 2^(n-1), 5000) ms after failed attempt n: 1000 ms after the  *)
(* first attempt and 2000 ms after the second, whatever the failure was.   *)
(***************************************************************************)
C11_BackoffBeforeEveryRetry ==
    call.fn \in {"validateEmail", "validatePhone"} =>
        \A n \in 1..(call.attempt - 1) :
            /\ n <= Len(call.waits)
            /\ call.waits[n] = (IF n = 1 THEN 1000 ELSE 2000)

(***************************************************************************)
(* C12. A 2xx answer whose JSON body lacks the required fields is never    *)
(* returned as a result: a call that returned, returned a well-formed      *)
(* body, and the endpoint scores and stores only well-formed bodies.       *)
(***************************************************************************)
C12_MalformedNeverReturned ==
    /\ ( /\ call.fn \in {"validateEmail", "validatePhone"}
         /\ call.pc = "done" /\ call.act = "return" ) =>
          /\ WellFormed(call.fn, call.hist[Len(call.hist)])
          /\ call.data = call.hist[Len(call.hist)].body
    /\ \A r \in Requests :
          req[r].pc \in {"insert", "update"} \/ (Answered(r) /\ req[r].resp = 200)
              => req[r].data.shape = "phone"

\* the cause a raised error names: an HTTP status, a network error, a
\* malformed response, or none
NamedCause(err) ==
    IF err.status # 0 THEN "http"
    ELSE IF err.msg \in {"Failed to connect to email validation service",
                         "Failed to connect to phone validation service"} THEN "network"
    ELSE IF err.msg \in {"Failed to validate email with Abstract API: structure",
                         "Failed to validate email with Abstract API: syntax"} THEN "malformed"
    ELSE "none"
\* the cause of a failed attempt
CauseOf(o) ==
    IF o.kind \in {"network", "timeout"} THEN "network"
    ELSE IF ~(o.status \in 200..299) THEN "http"
    ELSE "malformed"

(***************************************************************************)
(* C13. When all 3 attempts of validateEmail or validatePhone fail, the    *)
(* error raised names the cause of the last failed attempt: its HTTP       *)
(* status, a network error, or a malformed response.                       *)
(***************************************************************************)
C13_ErrorNamesLastCause ==
    ( /\ call.fn \in {"validateEmail", "validatePhone"}
      /\ call.pc = "done" /\ call.act = "throw" /\ Len(call.hist) = 3 )
    => /\ NamedCause(call.err) = CauseOf(call.hist[3])
       /\ CauseOf(call.hist[3]) = "http" => call.err.status = call.hist[3].status

\* the rule table of phone scoring, in order; scores in tenths
ScoringRows ==
    << [valid |-> FALSE, anyType |-> TRUE,  types |-> {},                      q |-> 1, risk |-> "high"],
       [valid |-> TRUE,  anyType |-> FALSE, types |-> {"Mobile"},              q |-> 9, risk |-> "low"],
       [valid |-> TRUE,  anyType |-> FALSE, types |-> {"Landline"},            q |-> 7, risk |-> "low"],
       [valid |-> TRUE,  anyType |-> FALSE, types |-> {"Toll_Free", "Unknown"}, q |-> 5, risk |-> "medium"],
       [valid |-> TRUE,  anyType |-> TRUE,  types |-> {},                      q |-> 8, risk |-> "low"] >>
\* the valid flag of a result is true
ValidFlag(data) == data.shape = "phone" /\ data.valid = TRUE
RowMatches(i, data) ==
    /\ ScoringRows[i].valid = ValidFlag(data)
    /\ ScoringRows[i].anyType \/ data.type \in ScoringRows[i].types
FirstMatchingRow(data) ==
    ScoringRows[CHOOSE i \in DOMAIN ScoringRows :
                    RowMatches(i, data) /\ \A j \in 1..(i - 1) : ~RowMatches(j, data)]
\* the record stored for request r
RecordOf(r) == store[req[r].recId]
Stored(r) == req[r].recId \in DOMAIN store

(***************************************************************************)
(* C14. Phone scoring equals the rule table for every validation result:   *)
(* the quality score and risk level stored for a request are those of the  *)
(* first matching row of: not valid -> (0.1, high); Mobile -> (0.9, low);  *)
(* Landline -> (0.7, low); Toll_Free or Unknown -> (0.5, medium); any      *)
(* other valid type -> (0.8, low).                                         *)
(***************************************************************************)
C14_PhoneScoringIsRuleTable ==
    \A r \in Requests :
        Stored(r) =>
            /\ RecordOf(r).quality_score = Some(FirstMatchingRow(req[r].data).q)
            /\ RecordOf(r).risk_level = Some(FirstMatchingRow(req[r].data).risk)
            /\ ~ValidFlag(req[r].data) =>
                  /\ RecordOf(r).quality_score = Some(1)
                  /\ RecordOf(r).risk_level = Some("high")

\* records scored by the fourth row and by the last row of the table
C14_Witness ==
    \E r \in Requests :
        /\ Stored(r)
        /\ req[r].data = Body("phone", TRUE, "Unknown")
        /\ RecordOf(r).quality_score = Some(5) /\ RecordOf(r).risk_level = Some("medium")

(***************************************************************************)
(* C15. For every phone request whose external call returned, the status   *)
(* stored is verified if and only if the result's valid flag is true, and  *)
(* failed otherwise; every record with status failed has risk level high   *)
(* and quality score 0.1.                                                  *)
(***************************************************************************)
C15_StatusFollowsValidFlag ==
    /\ \A r \in Requests :
          Stored(r) =>
              /\ RecordOf(r).status = "verified" <=> ValidFlag(req[r].data)
              /\ RecordOf(r).status = "failed" <=> ~ValidFlag(req[r].data)
    /\ \A i \in DOMAIN store :
          store[i].status = "failed" =>
              store[i].risk_level = Some("high") /\ store[i].quality_score = Some(1)

\* an invalid landline number answered 200 with its record stored as failed
C15_Witness ==
    \E r \in Requests :
        /\ Answered(r) /\ req[r].resp = 200 /\ Stored(r)
        /\ req[r].data = Body("phone", FALSE, "Landline")
        /\ RecordOf(r).status = "failed"

(***************************************************************************)
(* C16. For every request answered 200, the response's requestId,          *)
(* verificationCode, qualityScore, riskLevel and responseTime equal the    *)
(* id, verification_code, quality_score, risk_level and api_response_time  *)
(* of the record stored for the request, and its validation equals the     *)
(* stored validation payload.                                              *)
(***************************************************************************)
C16_ResponseEqualsRecord ==
    \A r \in Requests :
        (Answered(r) /\ req[r].resp = 200) =>
            /\ Stored(r)
            /\ req[r].out.requestId = RecordOf(r).id
            /\ req[r].out.verificationCode = RecordOf(r).verification_code
            /\ Some(req[r].out.qualityScore) = RecordOf(r).quality_score
            /\ Some(req[r].out.riskLevel) = RecordOf(r).risk_level
            /\ Some(req[r].out.responseTime) = RecordOf(r).api_response_time
            /\ Present(RecordOf(r).validation_data)
            /\ JSONParse(RecordOf(r).validation_data.v) = req[r].out.validation

\* which input check a request body fails: the presence check or the pattern
FailedCheck(body) ==
    IF body.phone.t # "string" \/ body.phone.s = <<>> THEN "required" ELSE "format"
ErrorAnswered(r) == Answered(r) /\ req[r].resp # 200

ClientFailed(r) ==
    /\ req[r].last.kind # "none"
    /\ ~(ResponseOk(req[r].last) /\ req[r].last.body.shape # "notjson")

(***************************************************************************)
(* C18. Every request ends with exactly one response, whose status is one  *)
(* of 200, 400, 429, 502, 500: a request that has arrived is answered, an  *)
(* answered request does nothing more, a failure of the external client    *)
(* is answered 502, and an exception of the record store or of parsing the *)
(* request body is answered 500.                                           *)
(***************************************************************************)
C18_OneResponsePerRequest ==
    /\ [](\A r \in Requests :
            Answered(r) =>
                /\ req[r].resp \in {200, 400, 429, 502, 500}
                /\ ClientFailed(r) <=> req[r].resp = 502
                /\ req[r].caught = "store" => req[r].resp = 500
                /\ req[r].body.json # "object" => req[r].resp = 500)
    /\ [][\A r \in Requests : Answered(r) => req'[r] = req[r]]_vars
    /\ \A r \in {1} : (req[r].pc # "idle") ~> Answered(r)

\* a request whose insert succeeded and whose update threw: answered 500
C18_Witness ==
    \E r \in Requests :
        /\ Answered(r) /\ req[r].resp = 500 /\ req[r].caught = "store"
        /\ req[r].inserts = 1 /\ req[r].updates = 0

\* a row for the value of request r, created within the last 5 minutes as the
\* server reads its created_at
RecentRowFor(r) ==
    \E i \in DOMAIN store :
        /\ store[i].type = "phone" /\ store[i].value = req[r].body.phone.s
        /\ store[i].created_at * 1000 - tz > now - 300000
\* p and q were in flight together: neither was answered when the other arrived
Concurrent(p, q) == p # q /\ p \notin req[q].prior /\ q \notin req[p].prior

(***************************************************************************)
(* C19. The rate-limit check and the insert are not one atomic step: the   *)
(* check rejects a request only when a recent row for its value is in the  *)
(* store, never because another request for the value is in flight.  So    *)
(* two concurrent requests for one value can both pass the check, both     *)
(* reach the external client and both end with 200, each with its own      *)
(* stored record.                                                          *)
(***************************************************************************)
C19_ConcurrentRequestsBothPass ==
    /\ [][\A r \in Requests :
            req[r].pc = "query" /\ req'[r].pc # "query" /\ req'[r].caught # "store"
            => ( /\ req'[r].resp = 429 <=> RecentRowFor(r)
                 /\ req'[r].pc = "fetch" <=> ~RecentRowFor(r) )]_vars
    /\ [](\A p, q \in Requests :
            ( /\ Concurrent(p, q) /\ SameValue(p, q)
              /\ Answered(p) /\ req[p].resp = 200
              /\ Answered(q) /\ req[q].resp = 200 )
            => /\ Stored(p) /\ Stored(q) /\ req[p].recId # req[q].recId
               /\ req[p].calls >= 1 /\ req[q].calls >= 1
               /\ RecordOf(p).value = RecordOf(q).value)

\* two requests for PhoneA in flight together, both answered 200, two rows
C19_Witness ==
    \E p, q \in Requests :
        /\ Concurrent(p, q) /\ SameValue(p, q)
        /\ Answered(p) /\ req[p].resp = 200
        /\ Answered(q) /\ req[q].resp = 200
        /\ Stored(p) /\ Stored(q) /\ req[p].recId # req[q].recId
        /\ Len(store) = 2 /\ store[1].value = store[2].value
        /\ store[1].created_at = store[2].created_at

\* the fields of a row that no update may change
Identity(row) ==
    <<row.id, row.type, row.value, row.verification_code, row.created_at,
      row.ip_address, row.user_agent>>
\* st2 is st after an update with the given id: no row gone or added, every
\* row keeps its identity, only the row with that id differs
UpdateFrame(st, st2, id) ==
    /\ DOMAIN st2 = DOMAIN st
    /\ \A i \in DOMAIN st :
          /\ Identity(st2[i]) = Identity(st[i])
          /\ st[i].id # id => st2[i] = st[i]
    /\ (\A i \in DOMAIN st : st[i].id # id) => st2 = st

(***************************************************************************)
(* C20. No operation removes a record, and no update operation changes a   *)
(* record's id, type, value, verification_code, created_at, ip_address or  *)
(* user_agent, nor any field of a record other than the one with the given *)
(* id; an update with an unknown id leaves the whole store unchanged.      *)
(***************************************************************************)
C20_UpdatesKeepRecords ==
    /\ [](\A id \in StoreIds :
            /\ \A updates \in StoreUpdates :
                  UpdateFrame(store, updateVerificationRequest(store, id, updates, now), id)
            /\ \A status \in {"verified", "failed"} :
                  UpdateFrame(store, updateVerificationStatus(store, id, status, now), id))
    /\ [][ /\ Len(store') >= Len(store)
           /\ \A i \in DOMAIN store : Identity(store'[i]) = Identity(store[i]) ]_vars

\* two rows, the first updated after its creation, the second as it was inserted
C20_Witness ==
    /\ Len(store) = 2
    /\ store[1].updated_at > store[1].created_at
    /\ store[1].status = "failed" /\ store[1].api_response_time = Some(1200)
    /\ store[2].updated_at = store[2].created_at
    /\ store[2].status = "pending"

TierRank(tier) == CASE tier = "low" -> 1 [] tier = "medium" -> 2 [] tier = "high" -> 3
\* the rank of the base tier of quality score q (tenths)
BaseRank(q) == IF q < 3 THEN 3 ELSE IF q > 7 THEN 1 ELSE 2
\* the rank a risk status raises the tier to
StatusRank(p) ==
    IF "high" \in {p.address, p.domain} THEN 3
    ELSE IF "medium" \in {p.address, p.domain} THEN 2 ELSE 1
\* the email rows of the store with their payloads
EmailRows == {i \in DOMAIN store : store[i].type = "email" /\ Present(store[i].validation_data)}
PayloadOf(i) == JSONParse(store[i].validation_data.v)

(***************************************************************************)
(* C21. Email risk escalation is monotonic: for every deliverable email    *)
(* payload the risk tier stored is never lower than the base tier of its   *)
(* quality score, it equals the tier reached after the risk-status rules   *)
(* when there is no breach, and one step above it, capped at high, when    *)
(* total_breaches > 0.                                                     *)
(***************************************************************************)
C21_EscalationIsMonotonic ==
    \A i \in EmailRows :
        LET p == PayloadOf(i)
            afterStatus == Max(BaseRank(p.q), StatusRank(p))
        IN  p.deliverable =>
                /\ Present(store[i].risk_level)
                /\ TierRank(store[i].risk_level.v) >= BaseRank(p.q)
                /\ TierRank(store[i].risk_level.v) =
                      (IF p.breaches > 0 THEN Min(afterStatus + 1, 3) ELSE afterStatus)

\* a deliverable payload of base tier low, medium address risk and one breach,
\* stored with tier high: both escalations applied, one after the other
C21_Witness ==
    \E i \in EmailRows :
        /\ PayloadOf(i) = [shape |-> "email", deliverable |-> TRUE, q |-> 9,
                           address |-> "medium", domain |-> "low", breaches |-> 1]
        /\ store[i].risk_level = Some("high")

\* the backoff waits of an external call that returned at the given attempt
WaitsBefore(attempt) ==
    IF attempt <= 1 THEN 0 ELSE IF attempt = 2 THEN 1000 ELSE 3000

(***************************************************************************)
(* C22. The latency persisted and returned for a request answered 200 is   *)
(* the time from the creation of its record to the persisting of its       *)
(* result, and it covers the external call with its backoff waits.         *)
(***************************************************************************)
C22_LatencyFromCreationToPersist ==
    \A r \in Requests :
        (Answered(r) /\ req[r].resp = 200) =>
            /\ Stored(r)
            /\ RecordOf(r).api_response_time = Some(req[r].out.responseTime)
            /\ req[r].out.responseTime =
                  (RecordOf(r).updated_at - RecordOf(r).created_at) * 1000
            /\ req[r].out.responseTime >= WaitsBefore(req[r].attempt)

\* the create of caller c has returned its record
Created(c) == caller[c].op = "create" /\ caller[c].pc = "done" /\ caller[c].err = ""
\* the row the INSERT of c's create added
OwnRow(c) == caller[c].lastID

(***************************************************************************)
(* C23. createVerificationRequest returns a record whose id is the id of   *)
(* the row it inserted and differs from the id of every other row, also    *)
(* when the inserts of concurrent callers interleave; its status is        *)
(* pending when none was given and its verification code is the one        *)
(* generated in the call; an insert adds a row whether or not a row with   *)
(* the same (type, value) exists.                                          *)
(***************************************************************************)
C23_CreateReturnsFreshId ==
    /\ [](\A i, j \in DOMAIN store : i # j => store[i].id # store[j].id)
    /\ [](\A c \in Callers :
            Created(c) =>
                /\ OwnRow(c) \in DOMAIN store
                /\ caller[c].ret.id = store[OwnRow(c)].id
                /\ \A i \in DOMAIN store \ {OwnRow(c)} : store[i].id # caller[c].ret.id
                /\ caller[c].request.status = "" => caller[c].ret.status = "pending"
                /\ caller[c].ret.status = store[OwnRow(c)].status
                /\ caller[c].ret.verification_code \in VerificationCodes
                /\ caller[c].ret.verification_code = store[OwnRow(c)].verification_code)
    /\ [][\A c \in Callers :
            ( /\ caller[c].op = "create" /\ caller[c].pc = "run" /\ caller'[c].pc # "run"
              /\ caller'[c].err = "" )
            => /\ Len(store') = Len(store) + 1
               /\ store'[Len(store')].type = caller[c].request.type
               /\ store'[Len(store')].value = caller[c].request.value]_vars

\* two creates for the same (type, value) whose INSERTs both ran before either
\* returned: the second has returned row 2, the first is about to return row 1
C23_Witness ==
    \E c, d \in Callers :
        /\ c # d
        /\ caller[c].pc = "return" /\ OwnRow(c) = 1
        /\ Created(d) /\ caller[d].ret.id = 2
        /\ Len(store) = 2
        /\ store[1].type = store[2].type /\ store[1].value = store[2].value

(***************************************************************************)
(* C24. No backoff wait follows the final attempt: once the third fetch    *)
(* of validateEmail, validatePhone or getEmailReputation has resolved,     *)
(* failed or timed out, the call is over, whatever the failure; a call is  *)
(* in a backoff wait only after attempt 1 or 2 and has waited at most      *)
(* twice.                                                                  *)
(***************************************************************************)
C24_NoWaitAfterFinalAttempt ==
    /\ call.pc = "delay" => call.attempt < 3
    /\ Len(call.waits) <= 2
    /\ Len(call.hist) = 3 => call.pc = "done"
    /\ \A r \in Requests :
          /\ req[r].pc = "delay" => req[r].attempt < 3
          /\ (req[r].attempt = 3 /\ req[r].last.kind # "none") => req[r].pc \notin {"fetch", "delay"}

\* getEmailReputation whose three attempts were answered 503: it waited 1000 ms
\* and 2000 ms, and raised its error when the third answer arrived
C24_Witness ==
    /\ call.fn = "getEmailReputation"
    /\ call.pc = "done" /\ call.act = "throw"
    /\ Len(call.hist) = 3 /\ call.hist[3] = Http(503, NoBody, FALSE)
    /\ call.waits = <<1000, 2000>>
    /\ now = 3000

\* a record of the same kind and value as request r, created less than 5
\* minutes ago
YoungRecordFor(r) ==
    \E i \in DOMAIN store :
        /\ store[i].type = "phone" /\ store[i].value = req[r].body.phone.s
        /\ now - store[i].created_at * 1000 < 300000

(***************************************************************************)
(* C25. Rate limiting has no false positives: the check answers 429 only   *)
(* if the store holds a record of the same kind and value created less     *)
(* than 5 minutes before; with no such record (none at all, only records   *)
(* of another value, or only records 5 minutes old or older) the request   *)
(* goes on to the external call.                                           *)
(***************************************************************************)
C25_NoFalsePositive ==
    [][\A r \in Requests :
          (req[r].pc = "query" /\ req'[r].pc # "query") =>
              /\ req'[r].resp = 429 => YoungRecordFor(r)
              /\ (~YoungRecordFor(r) /\ req'[r].caught # "store") => req'[r].pc = "fetch"]_vars

\* the page gave up on request r at its 15 s deadline
ClientGaveUp(r) == req[r].client = "aborted"
\* a record stored for a request the page gave up on, for the value of q, less
\* than 5 minutes old
OrphanedRecordFor(q) ==
    \E p \in Requests \ {q} :
        /\ ClientGaveUp(p) /\ Stored(p) /\ SameValue(p, q)
        /\ now - RecordOf(p).created_at * 1000 < 300000

(***************************************************************************)
(* C26. The server-side work of a request outlasts the page's 15 s         *)
(* deadline: the abort of the page changes nothing on the server, so a     *)
(* request the page gave up on, whose external call then returns a result, *)
(* is completed with its record stored (500 when a store operation         *)
(* throws), and a retry for the same value while that record is less than  *)
(* 5 minutes old is answered 429 with no external call, on a server whose  *)
(* local time is not ahead of UTC.                                         *)
(***************************************************************************)
C26_ServerOutlastsClientDeadline ==
    /\ [](\A r \in Requests :
            (ClientGaveUp(r) /\ Answered(r) /\ WellFormed("validatePhone", req[r].last))
            => \/ req[r].resp = 200 /\ Stored(r)
               \/ StoreFailed(r))
    /\ [][\A r \in Requests :
            (~ClientGaveUp(r) /\ ClientGaveUp(r)')
            => /\ InFlight(r) /\ InFlight(r)'
               /\ req' = [req EXCEPT ![r].client = "aborted"]
               /\ store' = store]_vars
    /\ [][\A q \in Requests :
            (req[q].pc = "query" /\ req'[q].pc # "query" /\ OrphanedRecordFor(q) /\ tz <= 0)
            => /\ req'[q].resp = 429 \/ req'[q].caught = "store"
               /\ req'[q].calls = 0]_vars

\* the first attempt timed out at 10 s, the page gave up at 15 s during the
\* second, which was answered at once; the server stored the record and
\* answered 200, and the page's retry for the value was answered 429
C26_Witness ==
    /\ ClientGaveUp(1) /\ Answered(1) /\ req[1].resp = 200 /\ req[1].calls = 2
    /\ Stored(1) /\ RecordOf(1).created_at = 15
    /\ req[1].out.responseTime = 15000
    /\ SameValue(1, 2) /\ Answered(2) /\ req[2].resp = 429
    /\ req[2].startTime < req[1].startTime + 300000

\* getDatabase has returned a handle to caller c, which has not used it yet
HoldsHandle(c) == caller[c].pc = "run" /\ caller[c].h # 0

(***************************************************************************)
(* C27. getDatabase never hands out a handle before the schema setup has   *)
(* completed: whenever a caller has received a handle, the exec of the     *)
(* CREATE TABLE / CREATE INDEX statements on it has completed and the      *)
(* table exists, and no statement of a caller fails for a missing table.   *)
(***************************************************************************)
C27_HandleOnlyAfterSchema ==
    \A c \in Callers :
        /\ HoldsHandle(c) => conns[caller[c].h].ready /\ schema
        /\ caller[c].err # "no such table"

(***************************************************************************)
(* C28. The store handle is a process-wide singleton: at most one          *)
(* connection is opened between two closeDatabase calls, and the callers   *)
(* that hold an open handle at the same time hold the same one.            *)
(***************************************************************************)
C28_SingleConnection ==
    /\ \A j, k \in DOMAIN conns : j # k => conns[j].epoch # conns[k].epoch
    /\ \A c, d \in Callers :
          ( /\ HoldsHandle(c) /\ conns[caller[c].h].open
            /\ HoldsHandle(d) /\ conns[caller[d].h].open )
          => caller[c].h = caller[d].h

(***************************************************************************)
(* C29. Every call of validateEmail, validatePhone and getEmailReputation  *)
(* terminates, by returning a result or raising an error, provided each    *)
(* fetch resolves, rejects or is aborted by its 10 s timer: every loop     *)
(* iteration returns, raises or moves on to the next attempt, at most 3    *)
(* attempts are made, and a timer abort is handled as a retryable network  *)
(* failure (a backoff and a retry after attempt 1 or 2, the connection     *)
(* error after attempt 3).                                                 *)
(***************************************************************************)
C29_CallsTerminate ==
    /\ (call.pc # "idle") ~> (call.pc = "done")
    /\ [](call.pc = "done" => call.act \in {"return", "throw"})
    /\ [](call.attempt <= 3)
    /\ [][(call.pc = "fetch" /\ call' # call)
            => \/ call'.pc = "done"
               \/ call'.pc = "delay" /\ call'.attempt = call.attempt
               \/ call'.pc = "fetch" /\ call'.attempt = call.attempt + 1]_vars
    /\ [][(call.pc = "delay" /\ call' # call)
            => call'.pc = "fetch" /\ call'.attempt = call.attempt + 1]_vars
    /\ [][(call.pc = "fetch" /\ Len(call'.hist) = Len(call.hist) + 1
             /\ call'.hist[Len(call'.hist)] = TimerAbort)
            => /\ now' = call.timer
               /\ IF call.attempt < 3
                  THEN call'.pc = "delay" /\ call'.timer = now' + Backoff(call.attempt)
                  ELSE /\ call'.pc = "done" /\ call'.act = "throw"
                       /\ NamedCause(call'.err) \in {"network", "none"}
                       /\ call'.err.status = 0]_vars

\* validateEmail returned at its third attempt, after two fetches aborted by
\* their timers and the backoffs of 1 s and 2 s
C29_Witness ==
    /\ call.fn = "validateEmail" /\ call.pc = "done" /\ call.act = "return"
    /\ call.hist = <<TimerAbort, TimerAbort, Http(200, Body("email", TRUE, ""), FALSE)>>
    /\ call.waits = <<1000, 2000>>
    /\ now = 23000

\* the fields compared by the round trip
RoundTripFields(rec) ==
    <<rec.type, rec.value, rec.status, rec.verification_code, rec.validation_data,
      rec.api_response_time, rec.quality_score, rec.risk_level>>
\* caller c created a record and then read the record with its id
ReadBack(c) ==
    /\ caller[c].op = "get" /\ caller[c].pc = "done" /\ caller[c].err = ""
    /\ caller[c].ret.id # 0 /\ caller[c].id = caller[c].ret.id

(***************************************************************************)
(* C30. Insert/read round trip: the record returned by                     *)
(* createVerificationRequest agrees with the record getVerificationRequest *)
(* returns for its id on type, value, status, verification_code,           *)
(* validation_data, api_response_time, quality_score and risk_level, also  *)
(* when a numeric field is 0.                                              *)
(***************************************************************************)
C30_InsertReadRoundTrip ==
    \A c \in Callers :
        ReadBack(c) =>
            /\ caller[c].got.id = caller[c].ret.id
            /\ RoundTripFields(caller[c].got) = RoundTripFields(caller[c].ret)

====
